---- MODULE Spec2Model ----
(***************************************************************************)
(* Model of the client-side session store of the blog                      *)
(* (src/utils/authStore.ts) together with its environment: the auth        *)
(* service it awaits (getSession, signOut, onAuthStateChange) and the UI   *)
(* callbacks that subscribe to it; and of the comment panel                 *)
(* (components Comments, unnamed/part_006) that reads the store when a      *)
(* visitor submits a comment.                                              *)
(*                                                                         *)
(* JavaScript runs each handler to its next await without interleaving,    *)
(* so one action is one run of a handler between two suspension points.    *)
(***************************************************************************)
EXTENDS Integers, Sequences, FiniteSets, TLC

\* ------------------------------------------------------------------ bounds
MaxEvents == 1
MaxSignOuts == 2
MaxComments == 2
MaxLoads == 2
MaxShown == 2

\* How many times initialize() is run in all.
MaxInits == 2

\* How many auth-change events may wait for the AuthStatus callback.
MaxStatusEvents == 2

\* How many entries the project collection holds at most.
MaxProjects == 3

\* ------------------------------------------------------- values of the model
\* The listener functions that UI components may pass to subscribe().
Listeners == {"l1", "l2"}

\* Session | null.  null is the empty tuple, a session is <<user id, access token>>.
Null == <<>>
Sessions == {<<"u1", "t1">>, <<"u1", "t2">>}
SessionOrNull == Sessions \cup {Null}

\* The session of another account, for the pages on which a visitor switches
\* accounts while commenting.
OtherSession == <<"u2", "t3">>
AnySession == SessionOrNull \cup {OtherSession}

\* What a listener has not yet been called with.
Unseen == <<>>

VARIABLES
    session,      \* authStore.ts:4   let session: Session | null = null
    loading,      \* authStore.ts:5   let loading = true
    listeners,    \* authStore.ts:7   the Set of listeners, in insertion order
    initPc,       \* position of the module-level initialize() call
    fetchError,   \* whether its getSession() reported a failure
    registered,   \* number of callbacks passed to supabase.auth.onAuthStateChange
    authSession,  \* the session the auth service currently holds
    events,       \* change notifications emitted by the auth service, not yet delivered
    soCalls,      \* the signOut() calls made so far, in call order
    seen,         \* per subscribed listener: the arguments of its latest invocation
    out,          \* the listener invocations made by the latest handler run, in order
    cap,          \* per listener: state of the unsubscribe capability its caller holds
    scen,         \* progress of the subscribe / sign-in / sign-out scenario
    scenL,        \* the listener the scenario follows
    scenCalls,    \* invocations of that listener since the scenario began
    \* ---- the comment panel (part_006)
    post_id,      \* part_006:68  the content key the panel was rendered with
    comments,     \* part_006:69  useState<Comment[]>([])
    error,        \* part_006:70  useState(null): whether a load error is stored
    panelLoading, \* part_006:71  useState(true), the component's `loading`
    commentText,  \* part_006:72  useState("")
    isSubmitting, \* part_006:73  useState(false)
    mounted,      \* whether the panel is still on the page
    loads,        \* fetchComments() runs suspended at their await, oldest first
    submits,      \* handleSubmit() runs suspended at the insert, oldest first
    panelOp,      \* which panel handler ran last, and how it ended
    notes,        \* the show-notification events that handler run dispatched
    sent,         \* the insert payloads that handler run sent to the data service
    profiles,     \* the profiles of the comments handed to the list rendering
    authors,      \* the author names CommentComponent has rendered for them
    asSession,    \* AuthStatus.tsx:6   useState<Session | null>(null)
    asLoading,    \* AuthStatus.tsx:7   useState(true)
    asPc,         \* where the effect's getSession() run is
    asFetched,    \* the session the auth service answered that run with
    asEvents,     \* auth-change events emitted to the component's callback, unhandled
    asAuth,       \* the session the auth service holds, as AuthStatus polls it
    asDetail,     \* detail.session of the last 'auth-status' window event
    projects,     \* the entries of the "project" content collection
    prod,         \* import.meta.env.PROD
    result        \* what the last getAllProjects() call returned

svars == <<session, loading, listeners, initPc, fetchError, registered, authSession, events,
           soCalls, seen, out, cap, scen, scenL, scenCalls>>

pvars == <<post_id, comments, error, panelLoading, commentText, isSubmitting, mounted,
           loads, submits, panelOp, notes, sent>>

avars == <<profiles, authors>>

uvars == <<asSession, asLoading, asPc, asFetched, asEvents, asAuth, asDetail>>

jvars == <<projects, prod, result>>

vars == <<svars, pvars, avars, uvars, jvars>>

\* ------------------------------------------------------------ pure helpers
Range(q) == {q[i] : i \in 1..Len(q)}

Subscribed == Range(listeners)

\* A comparison key that leaves the access token out.
StringifyUserOnly(s) ==
    IF s = Null THEN "null" ELSE "{user:" \o s[1] \o "}"

\* JSON.stringify of a Session | null, as far as the comparison can tell values apart.
Stringify(s) ==
    IF s = Null THEN "null"
    ELSE "{user:" \o s[1] \o ",access_token:" \o s[2] \o "}"

\* An insertion that moves a member to the end.
SetAddMoving(q, l) == Append(SelectSeq(q, LAMBDA x : x # l), l)

\* An insertion at the front instead of the end.
SetAddFront(q, l) == IF l \in Range(q) THEN q ELSE <<l>> \o q

\* Set.add: appends unless already a member (a Set keeps the first insertion position).
SetAdd(q, l) == IF l \in Range(q) THEN q ELSE Append(q, l)

\* Set.clear in place of Set.delete.
SetDeleteAll(q, l) == <<>>

\* Set.delete
SetDelete(q, l) == SelectSeq(q, LAMBDA x : x # l)

\* One call listener(s, ld), recorded in the observation state o = [seen, out].
Invoke(o, l, s, ld) ==
    [seen |-> [o.seen EXCEPT ![l] = <<s, ld>>],
     out  |-> Append(o.out, <<l, s, ld>>)]

\* notify(): for (const listener of listeners) listener(session, loading)
RECURSIVE NotifyFrom(_, _, _, _, _)
NotifyFrom(i, q, o, s, ld) ==
    IF i > Len(q) THEN o
    ELSE NotifyFrom(i + 1, q, Invoke(o, q[i], s, ld), s, ld)

\* A pass that starts after the first listener.
NotifySkipFirst(q, o, s, ld) == NotifyFrom(2, q, o, s, ld)

Notify(q, o, s, ld) == NotifyFrom(1, q, o, s, ld)

\* notify() when listener a, on being invoked, calls the unsubscribe closure
\* of listener u: for...of over the live Set skips an entry deleted before
\* the iteration has reached it.
RECURSIVE NotifyLiveFrom(_, _, _, _, _, _, _, _)
NotifyLiveFrom(i, q, gone, o, s, ld, a, u) ==
    IF i > Len(q) THEN [o |-> o, listeners |-> SelectSeq(q, LAMBDA x : x \notin gone)]
    ELSE IF q[i] \in gone THEN NotifyLiveFrom(i + 1, q, gone, o, s, ld, a, u)
    ELSE NotifyLiveFrom(i + 1, q, IF q[i] = a THEN gone \cup {u} ELSE gone,
                        Invoke(o, q[i], s, ld), s, ld, a, u)

\* A pass over a copy of the listeners taken when it starts: a listener
\* removed during the pass is still invoked.
NotifySnapshot(q, o, s, ld, a, u) ==
    [o |-> NotifyFrom(1, q, o, s, ld),
     listeners |-> IF a \in Range(q) THEN SelectSeq(q, LAMBDA x : x # u) ELSE q]

NotifyLive(q, o, s, ld, a, u) == NotifyLiveFrom(1, q, {}, o, s, ld, a, u)

\* The observation state at the start of a handler run: nothing invoked yet.
Obs == [seen |-> seen, out |-> <<>>]

\* How many times listener l is invoked in the invocation sequence q.
Times(q, l) == Cardinality({i \in 1..Len(q) : q[i][1] = l})

\* A signOut() call that is still suspended at its await.
Outstanding(c) == c.st \in {"sent", "signedOut"}

\* ------------------------------------------------- the scenario being followed
\* Stages of the sequence "store initialized with session absent -> subscribe ->
\* external event delivers a present session -> signOut() -> sign-out
\* notification delivered"; 0 while the run is not inside that sequence.
ScenStart(l) ==
    /\ initPc = "done"
    /\ session = Null
    /\ ~loading
    /\ events = <<>>
    /\ \A i \in 1..Len(soCalls) : ~Outstanding(soCalls[i])
    /\ cap[l] = "none"

ScenNext(op, arg) ==
    CASE op = "subscribe" /\ scen \in {0, 8} /\ ScenStart(arg) -> <<1, arg>>
      [] scen = 1 /\ op = "event" /\ arg # Null -> <<2, scenL>>
      [] scen = 2 /\ op = "deliver" -> <<3, scenL>>
      [] scen = 3 /\ op = "signOutCall" -> <<4, scenL>>
      [] scen = 4 /\ op = "authSignOut" -> <<5, scenL>>
      [] scen = 5 /\ op = "deliver" -> <<6, scenL>>
      [] scen = 5 /\ op = "signOutResume" /\ arg = "ok" -> <<7, scenL>>
      [] scen = 6 /\ op = "signOutResume" /\ arg = "ok" -> <<8, scenL>>
      [] scen = 7 /\ op = "deliver" -> <<8, scenL>>
      [] OTHER -> <<0, "none">>

\* Advances the scenario by the operation being run and counts the
\* invocations the operation makes of the followed listener.
Track(op, arg) ==
    /\ scen' = ScenNext(op, arg)[1]
    /\ scenL' = ScenNext(op, arg)[2]
    /\ scenCalls' = CASE scen' = 0 -> 0
                       [] scen' = 1 -> Times(out', scenL')
                       [] OTHER -> scenCalls + Times(out', scenL')

\* ------------------------------------------------- values of the comment panel
\* Content keys a panel can be rendered with.
Keys == {"X", "Y"}

\* Draft texts, as sequences of characters: empty, blank, and one with content
\* behind a leading blank.
Texts == {<<>>, <<" ">>, <<" ", "h">>}

\* String.prototype.trim: drops the white space at both ends.
RECURSIVE Trim(_)
Trim(s) ==
    IF s = <<>> THEN s
    ELSE IF Head(s) = " " THEN Trim(Tail(s))
    ELSE IF s[Len(s)] = " " THEN Trim(SubSeq(s, 1, Len(s) - 1))
    ELSE s

\* The rows the data service holds for content key k when a load finds some.
Stored(k) == << [comment_text |-> <<"o">>, user_id |-> "u0", post_id |-> k] >>

\* The record the data service returns for an accepted insert.
Created(payload) == payload

\* The session asked of the auth service instead of read from the store.
GetSessionAtService == authSession

\* authStore.getSession()
GetSession == session

\* The panel after its first render and its effect: the first
\* fetchComments() is suspended at its await.
\* ------------------------------------------------ the AuthStatus component
\* AuthStatus.tsx:6-7 and the effect of lines 9-25 up to the await of line 11,
\* with the change callback of line 19 registered, when the auth service
\* holds session a.
StatusInit(a) ==
    /\ asSession = Null
    /\ asLoading = TRUE
    /\ asPc = "fetching"
    /\ asFetched = Null
    /\ asEvents = <<>>
    /\ asAuth = a
    /\ asDetail = <<>>

\* -------------------------------------------------- the project collection
\* draft of an entry's data: absent, or present with a boolean.
Drafts == {<<>>, <<TRUE>>, <<FALSE>>}

\* An empty collection in a build whose import.meta.env.PROD is p.
ProjectInit(p) ==
    /\ projects = <<>>
    /\ prod = p
    /\ result = <<>>

PanelInit ==
    /\ post_id = "X"
    /\ comments = <<>>
    /\ error = FALSE
    /\ panelLoading = TRUE
    /\ commentText = <<>>
    /\ isSubmitting = FALSE
    /\ mounted = TRUE
    /\ loads = <<"X">>
    /\ submits = <<>>
    /\ panelOp = "mount"
    /\ notes = <<>>
    /\ sent = <<>>
    /\ profiles = <<>>
    /\ authors = <<>>

\* ------------------------------------------------------------------- Init
\* The state once the module has been evaluated: initialize() has run
\* setLoading(true) over an empty listener set and is suspended at
\* await supabase.auth.getSession().
Init ==
    /\ session = Null
    /\ loading = TRUE
    /\ listeners = <<>>
    /\ initPc = "fetching"
    /\ fetchError = FALSE
    /\ registered = 0
    /\ authSession \in SessionOrNull
    /\ events = <<>>
    /\ soCalls = <<>>
    /\ seen = [l \in Listeners |-> Unseen]
    /\ out = <<>>
    /\ cap = [l \in Listeners |-> "none"]
    /\ scen = 0
    /\ scenL = "none"
    /\ scenCalls = 0
    /\ PanelInit
    /\ StatusInit(Null)
    /\ ProjectInit(FALSE)

\* The page with the AuthStatus component mounted, whatever session the
\* auth service holds.
InitStatus ==
    /\ session = Null
    /\ loading = TRUE
    /\ listeners = <<>>
    /\ initPc = "fetching"
    /\ fetchError = FALSE
    /\ registered = 0
    /\ authSession = Null
    /\ events = <<>>
    /\ soCalls = <<>>
    /\ seen = [l \in Listeners |-> Unseen]
    /\ out = <<>>
    /\ cap = [l \in Listeners |-> "none"]
    /\ scen = 0
    /\ scenL = "none"
    /\ scenCalls = 0
    /\ PanelInit
    /\ \E a \in SessionOrNull : StatusInit(a)
    /\ ProjectInit(FALSE)

\* A development or a production build with an empty project collection.
InitProject ==
    /\ session = Null
    /\ loading = TRUE
    /\ listeners = <<>>
    /\ initPc = "fetching"
    /\ fetchError = FALSE
    /\ registered = 0
    /\ authSession = Null
    /\ events = <<>>
    /\ soCalls = <<>>
    /\ seen = [l \in Listeners |-> Unseen]
    /\ out = <<>>
    /\ cap = [l \in Listeners |-> "none"]
    /\ scen = 0
    /\ scenL = "none"
    /\ scenCalls = 0
    /\ PanelInit
    /\ StatusInit(Null)
    /\ \E p \in BOOLEAN : ProjectInit(p)

\* ---------------------------------------------------------------- initialize
\* initialize() without its setLoading(false).
FetchResolveStillLoading(ok) ==
    /\ initPc = "fetching"
    /\ LET s == IF ok THEN authSession ELSE Null
           o == Notify(listeners, Obs, s, loading)
       IN /\ session' = s
          /\ seen' = o.seen
          /\ out' = o.out
    /\ registered' = registered + 1
    /\ initPc' = "done"
    /\ fetchError' = ~ok
    /\ UNCHANGED <<pvars, avars, uvars, jvars>>
    /\ Track("fetchResolve", ok)
    /\ UNCHANGED <<loading, listeners, authSession, events, soCalls, cap>>

\* initialize() that hands its callback to onAuthStateChange twice.
FetchResolveTwice(ok) ==
    /\ initPc = "fetching"
    /\ LET s == IF ok THEN authSession ELSE Null
           o1 == Notify(listeners, Obs, s, FALSE)
           o2 == Notify(listeners, o1, s, FALSE)
       IN /\ session' = s
          /\ loading' = FALSE
          /\ seen' = o2.seen
          /\ out' = o2.out
    /\ registered' = registered + 2
    /\ initPc' = "done"
    /\ fetchError' = ~ok
    /\ UNCHANGED <<pvars, avars, uvars, jvars>>
    /\ Track("fetchResolve", ok)
    /\ UNCHANGED <<listeners, authSession, events, soCalls, cap>>

\* getSession() resolves: with the service's session, or with
\* { data: { session: null }, error } when the fetch failed.
FetchResolve(ok) ==
    /\ initPc = "fetching"
    /\ LET s == IF ok THEN authSession ELSE Null
           o1 == Notify(listeners, Obs, s, FALSE)       \* setLoading(false)
           o2 == Notify(listeners, o1, s, FALSE)        \* notify()
       IN /\ session' = s
          /\ loading' = FALSE
          /\ seen' = o2.seen
          /\ out' = o2.out
    /\ registered' = registered + 1                     \* onAuthStateChange(cb)
    /\ initPc' = "done"
    /\ fetchError' = ~ok
    /\ UNCHANGED <<pvars, avars, uvars, jvars>>
    /\ Track("fetchResolve", ok)
    /\ UNCHANGED <<listeners, authSession, events, soCalls, cap>>

\* getSession() rejects: the await throws, initialize() has no handler, the
\* rest of its body never runs.
FetchReject ==
    /\ initPc = "fetching"
    /\ initPc' = "failed"
    /\ fetchError' = TRUE
    /\ UNCHANGED <<pvars, avars, uvars, jvars>>
    /\ Track("fetchReject", Null)
    /\ out' = <<>>
    /\ UNCHANGED <<session, loading, listeners, registered, authSession, events,
                   soCalls, seen, cap>>

\* ----------------------------------------------------- subscribe / unsubscribe
\* subscribe() that registers the listener without calling it.
SubscribeSilent(l) ==
    /\ listeners' = SetAdd(listeners, l)
    /\ out' = <<>>
    /\ cap' = [cap EXCEPT ![l] = "held"]
    /\ UNCHANGED <<pvars, avars, uvars, jvars>>
    /\ Track("subscribe", l)
    /\ UNCHANGED <<session, loading, initPc, fetchError, registered, authSession, events,
                   soCalls, seen>>

Subscribe(l) ==
    /\ listeners' = SetAdd(listeners, l)
    /\ LET o == Invoke(Obs, l, session, loading)
       IN /\ seen' = o.seen
          /\ out' = o.out
    /\ cap' = [cap EXCEPT ![l] = "held"]
    /\ UNCHANGED <<pvars, avars, uvars, jvars>>
    /\ Track("subscribe", l)
    /\ UNCHANGED <<session, loading, initPc, fetchError, registered, authSession, events,
                   soCalls>>

\* An unsubscribe closure that deletes nothing.
UnsubscribeKeep(l) ==
    /\ cap[l] # "none"
    /\ cap' = [cap EXCEPT ![l] = "used"]
    /\ out' = <<>>
    /\ UNCHANGED <<pvars, avars, uvars, jvars>>
    /\ Track("unsubscribe", l)
    /\ UNCHANGED <<session, loading, listeners, initPc, fetchError, registered,
                   authSession, events, soCalls, seen>>

\* The closure returned by subscribe: () => listeners.delete(listener)
Unsubscribe(l) ==
    /\ cap[l] # "none"
    /\ listeners' = SetDelete(listeners, l)
    /\ cap' = [cap EXCEPT ![l] = "used"]
    /\ out' = <<>>
    /\ seen' = [seen EXCEPT ![l] = Unseen]       \* its component is torn down
    /\ UNCHANGED <<pvars, avars, uvars, jvars>>
    /\ Track("unsubscribe", l)
    /\ UNCHANGED <<session, loading, initPc, fetchError, registered, authSession,
                   events, soCalls>>

\* ------------------------------------------------------- change notifications
\* The auth service's session changes (sign-in, token refresh, sign-out in
\* another tab, or a repeated event for the same session); registered
\* callbacks will be told.
ExternalEvent(s) ==
    /\ Len(events) < MaxEvents
    /\ authSession' = s
    /\ events' = IF registered > 0 THEN Append(events, s) ELSE events
    /\ out' = <<>>
    /\ UNCHANGED <<pvars, avars, uvars, jvars>>
    /\ Track("event", s)
    /\ UNCHANGED <<session, loading, listeners, initPc, fetchError, registered,
                   soCalls, seen, cap>>

\* The change callback also dispatching a show-notification event.
DeliverAnnouncing ==
    /\ events # <<>>
    /\ registered > 0
    /\ LET newSession == Head(events)
       IN IF Stringify(session) # Stringify(newSession)
          THEN LET o == Notify(listeners, Obs, newSession, loading)
               IN /\ session' = newSession
                  /\ seen' = o.seen
                  /\ out' = o.out
          ELSE /\ out' = <<>>
               /\ UNCHANGED <<session, seen>>
    /\ events' = Tail(events)
    /\ notes' = <<"signin">>
    /\ UNCHANGED <<post_id, comments, error, panelLoading, commentText, isSubmitting,
                   mounted, loads, submits, panelOp, sent>>
    /\ UNCHANGED <<avars, uvars, jvars>>
    /\ Track("deliver", Null)
    /\ UNCHANGED <<loading, listeners, initPc, fetchError, registered, authSession,
                   soCalls, cap>>

\* The callback given to onAuthStateChange runs for the oldest pending event.
Deliver ==
    /\ events # <<>>
    /\ registered > 0
    /\ LET newSession == Head(events)
       IN IF Stringify(session) # Stringify(newSession)
          THEN LET o == Notify(listeners, Obs, newSession, loading)
               IN /\ session' = newSession
                  /\ seen' = o.seen
                  /\ out' = o.out
          ELSE /\ out' = <<>>
               /\ UNCHANGED <<session, seen>>
    /\ events' = Tail(events)
    /\ UNCHANGED <<pvars, avars, uvars, jvars>>
    /\ Track("deliver", Null)
    /\ UNCHANGED <<loading, listeners, initPc, fetchError, registered, authSession,
                   soCalls, cap>>

\* The change callback runs for an event that changes the session while
\* listener a is one that, on being invoked, calls the unsubscribe closure of
\* listener u, which the pass has not reached yet.
DeliverUnsubscribing(a, u) ==
    /\ events # <<>>
    /\ registered > 0
    /\ Stringify(session) # Stringify(Head(events))
    /\ a \in Subscribed /\ u \in Subscribed
    /\ \E i, j \in 1..Len(listeners) : i < j /\ listeners[i] = a /\ listeners[j] = u
    /\ LET r == NotifyLive(listeners, Obs, Head(events), loading, a, u)
       IN /\ session' = Head(events)
          /\ seen' = r.o.seen
          /\ out' = r.o.out
          /\ listeners' = r.listeners
    /\ cap' = [cap EXCEPT ![u] = "usedInPass"]
    /\ events' = Tail(events)
    /\ UNCHANGED <<pvars, avars, uvars, jvars>>
    /\ Track("deliver", Null)
    /\ UNCHANGED <<loading, initPc, fetchError, registered, authSession, soCalls>>

\* initialize() is called again after an earlier run has completed: it runs
\* up to its await, setLoading(true) notifying the listeners.
InitializeAgain ==
    /\ initPc = "done"
    /\ registered < MaxInits
    /\ loading' = TRUE
    /\ LET o == Notify(listeners, Obs, session, TRUE)
       IN /\ seen' = o.seen
          /\ out' = o.out
    /\ initPc' = "fetching"
    /\ UNCHANGED <<pvars, avars, uvars, jvars>>
    /\ Track("initialize", Null)
    /\ UNCHANGED <<session, listeners, fetchError, registered, authSession, events,
                   soCalls, cap>>

\* A change callback that assigns and notifies without comparing.
CallbackAlways(st, newSession, ld, q) ==
    [session |-> newSession, o |-> Notify(q, st.o, newSession, ld)]

\* One run of the callback given to onAuthStateChange, from the stored
\* session and the invocations made so far.
Callback(st, newSession, ld, q) ==
    IF Stringify(st.session) # Stringify(newSession)
    THEN [session |-> newSession, o |-> Notify(q, st.o, newSession, ld)]
    ELSE st

\* The auth service calls its n registered callbacks one after the other.
RECURSIVE Callbacks(_, _, _, _, _)
Callbacks(n, st, newSession, ld, q) ==
    IF n = 0 THEN st
    ELSE Callbacks(n - 1, Callback(st, newSession, ld, q), newSession, ld, q)

\* The auth service emits one session-change event to every callback
\* registered with it.
DeliverAll ==
    /\ events # <<>>
    /\ registered > 0
    /\ LET r == Callbacks(registered, [session |-> session, o |-> Obs], Head(events),
                          loading, listeners)
       IN /\ session' = r.session
          /\ seen' = r.o.seen
          /\ out' = r.o.out
    /\ events' = Tail(events)
    /\ UNCHANGED <<pvars, avars, uvars, jvars>>
    /\ Track("deliver", Null)
    /\ UNCHANGED <<loading, listeners, initPc, fetchError, registered, authSession,
                   soCalls, cap>>

\* -------------------------------------------------------------------- signOut
\* signOut() that assigns loading directly instead of calling setLoading(true).
SignOutCallQuiet ==
    /\ Len(soCalls) < MaxSignOuts
    /\ loading' = TRUE
    /\ out' = <<>>
    /\ soCalls' = Append(soCalls, [st |-> "sent", svc |-> "none"])
    /\ UNCHANGED <<pvars, avars, uvars, jvars>>
    /\ Track("signOutCall", Null)
    /\ UNCHANGED <<session, listeners, initPc, fetchError, registered, authSession,
                   events, seen, cap>>

\* signOut() up to its await: setLoading(true), then the service call is sent.
SignOutCall ==
    /\ Len(soCalls) < MaxSignOuts
    /\ loading' = TRUE
    /\ LET o == Notify(listeners, Obs, session, TRUE)
       IN /\ seen' = o.seen
          /\ out' = o.out
    /\ soCalls' = Append(soCalls, [st |-> "sent", svc |-> "none"])
    /\ UNCHANGED <<pvars, avars, uvars, jvars>>
    /\ Track("signOutCall", Null)
    /\ UNCHANGED <<session, listeners, initPc, fetchError, registered, authSession,
                   events, cap>>

\* The auth service carries out call i: the visitor is signed out there and
\* the sign-out notification is emitted to the registered callbacks.
AuthSignOut(i) ==
    /\ i \in 1..Len(soCalls)
    /\ soCalls[i].st = "sent"
    /\ Len(events) < MaxEvents
    /\ soCalls' = [soCalls EXCEPT ![i] = [st |-> "signedOut", svc |-> "ok"]]
    /\ authSession' = Null
    /\ events' = IF registered > 0 THEN Append(events, Null) ELSE events
    /\ out' = <<>>
    /\ UNCHANGED <<pvars, avars, uvars, jvars>>
    /\ Track("authSignOut", Null)
    /\ UNCHANGED <<session, loading, listeners, initPc, fetchError, registered, seen,
                   cap>>

\* signOut() that clears the stored session itself once the service call succeeded.
SignOutResumeOptimistic(i, outcome) ==
    /\ i \in 1..Len(soCalls)
    /\ soCalls[i].st = (IF outcome = "ok" THEN "signedOut" ELSE "sent")
    /\ IF outcome = "reject"
       THEN /\ soCalls' = [soCalls EXCEPT ![i] = [st |-> "thrown", svc |-> outcome]]
            /\ out' = <<>>
            /\ UNCHANGED <<session, loading, seen>>
       ELSE /\ loading' = FALSE
            /\ session' = IF outcome = "ok" THEN Null ELSE session
            /\ LET o == Notify(listeners, Obs, session', FALSE)
               IN /\ seen' = o.seen
                  /\ out' = o.out
            /\ soCalls' = [soCalls EXCEPT ![i] = [st |-> "returned", svc |-> outcome]]
    /\ UNCHANGED <<pvars, avars, uvars, jvars>>
    /\ Track("signOutResume", outcome)
    /\ UNCHANGED <<listeners, initPc, fetchError, registered, authSession, events, cap>>

\* signOut() resumes after its await.  The service has signed the visitor
\* out ("ok"), or it failed: the promise is fulfilled with { error }
\* ("error") or rejected ("reject").  The awaited value is discarded, so a
\* fulfilled promise lets signOut() run setLoading(false) and return; a
\* rejected one throws out of signOut() to the caller.
SignOutResume(i, outcome) ==
    /\ i \in 1..Len(soCalls)
    /\ soCalls[i].st = (IF outcome = "ok" THEN "signedOut" ELSE "sent")
    /\ IF outcome = "reject"
       THEN /\ soCalls' = [soCalls EXCEPT ![i] = [st |-> "thrown", svc |-> outcome]]
            /\ out' = <<>>
            /\ UNCHANGED <<loading, seen>>
       ELSE /\ loading' = FALSE
            /\ LET o == Notify(listeners, Obs, session, FALSE)
               IN /\ seen' = o.seen
                  /\ out' = o.out
            /\ soCalls' = [soCalls EXCEPT ![i] = [st |-> "returned", svc |-> outcome]]
    /\ UNCHANGED <<pvars, avars, uvars, jvars>>
    /\ Track("signOutResume", outcome)
    /\ UNCHANGED <<session, listeners, initPc, fetchError, registered, authSession,
                   events, cap>>

\* ----------------------------------------------------------------------- Next
Next ==
    \/ \E ok \in BOOLEAN : FetchResolve(ok)
    \/ FetchReject
    \/ \E l \in Listeners : Subscribe(l)
    \/ \E l \in Listeners : Unsubscribe(l)
    \/ \E s \in SessionOrNull : ExternalEvent(s)
    \/ Deliver
    \/ SignOutCall
    \/ \E i \in 1..MaxSignOuts : AuthSignOut(i)
    \/ \E i \in 1..MaxSignOuts, outcome \in {"ok", "error", "reject"} : SignOutResume(i, outcome)

Spec == Init /\ [][Next]_vars

ListenersNext ==
    \/ \E ok \in BOOLEAN : FetchResolve(ok)
    \/ \E l \in Listeners : Subscribe(l)
    \/ \E l \in Listeners : Unsubscribe(l)
    \/ \E s \in SessionOrNull : ExternalEvent(s)
    \/ Deliver
    \/ \E a, u \in Listeners : DeliverUnsubscribing(a, u)

\* Components that subscribe (also more than once), unsubscribe (also more
\* than once, also from inside their listener) while the session changes.
SpecListeners == Init /\ [][ListenersNext]_vars

ReinitNext ==
    \/ \E ok \in BOOLEAN : FetchResolve(ok)
    \/ InitializeAgain
    \/ \E l \in Listeners : Subscribe(l)
    \/ \E s \in SessionOrNull : ExternalEvent(s)
    \/ DeliverAll

\* The store when initialize() may be called again, so that several change
\* callbacks are registered with the auth service.
SpecReinit == Init /\ [][ReinitNext]_vars

TypeOK ==
    /\ session \in AnySession
    /\ loading \in BOOLEAN
    /\ Subscribed \subseteq Listeners
    /\ Len(listeners) = Cardinality(Subscribed)
    /\ initPc \in {"fetching", "done", "failed"}
    /\ fetchError \in BOOLEAN
    /\ registered \in 0..MaxInits
    /\ authSession \in AnySession
    /\ Len(events) <= MaxEvents
    /\ Len(soCalls) <= MaxSignOuts
    /\ Len(out) <= 2 * Cardinality(Listeners)
    /\ scenCalls \in 0..5
    /\ \A l \in Listeners : cap[l] \in {"none", "held", "used", "usedInPass"}
    /\ scen \in 0..8

\* ================================================================ the panel
\* q without its i-th element.
Without(q, i) == SubSeq(q, 1, i - 1) \o SubSeq(q, i + 1, Len(q))

\* The visitor types: onInput -> setCommentText.
Input(txt) ==
    /\ mounted
    /\ txt # commentText
    /\ commentText' = txt
    /\ panelOp' = "input"
    /\ notes' = <<>>
    /\ sent' = <<>>
    /\ UNCHANGED <<post_id, comments, error, panelLoading, isSubmitting, mounted, loads,
                   submits>>
    /\ UNCHANGED <<svars, avars, uvars, jvars>>

\* The panel is rendered with another content key: the effect runs
\* fetchComments() again (no state is reset first).
PropChange(k) ==
    /\ mounted
    /\ k # post_id
    /\ Len(loads) < MaxLoads
    /\ post_id' = k
    /\ loads' = Append(loads, k)
    /\ panelOp' = "rerender"
    /\ notes' = <<>>
    /\ sent' = <<>>
    /\ UNCHANGED <<comments, error, panelLoading, commentText, isSubmitting, mounted,
                   submits>>
    /\ UNCHANGED <<svars, avars, uvars, jvars>>

\* fetchComments() resumes for load i, in whatever order the responses
\* arrive: with rows or an empty array, with { error }, or the query rejects
\* (then the await throws and setLoading(false) is never reached).
LoadResume(i, outcome) ==
    /\ i \in 1..Len(loads)
    /\ loads' = Without(loads, i)
    /\ CASE outcome = "error" ->
              /\ error' = TRUE
              /\ panelLoading' = FALSE
              /\ UNCHANGED comments
         [] outcome = "rows" ->
              /\ comments' = Stored(loads[i])
              /\ panelLoading' = FALSE
              /\ UNCHANGED error
         [] outcome = "empty" ->
              /\ comments' = <<>>
              /\ panelLoading' = FALSE
              /\ UNCHANGED error
         [] outcome = "reject" ->
              UNCHANGED <<comments, error, panelLoading>>
    /\ panelOp' = "load"
    /\ notes' = <<>>
    /\ sent' = <<>>
    /\ UNCHANGED <<post_id, commentText, isSubmitting, mounted, submits>>
    /\ UNCHANGED <<svars, avars, uvars, jvars>>

\* if (commentText.trim()), without the trim.
ValidUntrimmed(text) == text # <<>>

\* if (commentText.trim()): the draft has content.
Valid(text) == Trim(text) # <<>>

\* The submit button is left enabled while a submit is in flight.
CanSubmitAlways == mounted

\* The form is submitted through its button, disabled={isSubmitting}.
CanSubmit == mounted /\ ~isSubmitting

\* The sign-in notification dispatched as the insert-failure one.
SubmitNoSessionAsError ==
    /\ notes' = <<"error">>
    /\ sent' = <<>>
    /\ isSubmitting' = FALSE
    /\ panelOp' = "submit_nosession"
    /\ UNCHANGED submits

\* if (!session?.user): a show-notification event asking to sign in,
\* setIsSubmitting(false), return.
SubmitNoSession ==
    /\ notes' = <<"signin">>
    /\ sent' = <<>>
    /\ isSubmitting' = FALSE
    /\ panelOp' = "submit_nosession"
    /\ UNCHANGED submits

\* The insert is issued without setIsSubmitting(true) having taken effect.
SubmitSendIdle ==
    LET payload == [post_id |-> post_id, comment_text |-> commentText,
                    user_id |-> GetSession[1]]
    IN /\ sent' = <<payload>>
       /\ submits' = Append(submits, [payload |-> payload, comments |-> comments])
       /\ notes' = <<>>
       /\ isSubmitting' = FALSE
       /\ panelOp' = "submit_sent"

\* supabase.from("comments").insert({ post_id, comment_text, user_id }) is
\* issued and handleSubmit suspends at the await, holding the comments of its
\* render; isSubmitting was set at the top of the handler.
SubmitSend ==
    LET payload == [post_id |-> post_id, comment_text |-> commentText,
                    user_id |-> GetSession[1]]
    IN /\ sent' = <<payload>>
       /\ submits' = Append(submits, [payload |-> payload, comments |-> comments])
       /\ notes' = <<>>
       /\ isSubmitting' = TRUE
       /\ panelOp' = "submit_sent"

\* A draft without content: setIsSubmitting(true) and nothing else.
SubmitBlank ==
    /\ isSubmitting' = TRUE
    /\ notes' = <<>>
    /\ sent' = <<>>
    /\ panelOp' = "submit_blank"
    /\ UNCHANGED submits

\* handleSubmit up to its await (or to its end).
Submit ==
    /\ CanSubmit
    /\ Len(comments) < MaxComments
    /\ IF Valid(commentText)
       THEN IF GetSession = Null THEN SubmitNoSession ELSE SubmitSend
       ELSE SubmitBlank
    /\ UNCHANGED <<post_id, comments, error, panelLoading, commentText, mounted, loads>>
    /\ UNCHANGED <<svars, avars, uvars, jvars>>

\* The new record put behind the comments held.
PrependLast(data, list) == list \o <<data>>

\* [data, ...comments]
Prepend(data, list) == <<data>> \o list

\* handleSubmit resuming with the draft cleared on every outcome.
InsertResumeClearing(i, outcome) ==
    /\ i \in 1..Len(submits)
    /\ submits' = Without(submits, i)
    /\ comments' = IF outcome = "record"
                   THEN Prepend(Created(submits[i].payload), submits[i].comments)
                   ELSE comments
    /\ commentText' = <<>>
    /\ notes' = CASE outcome = "record" -> <<"success">>
                  [] outcome = "norecord" -> <<>>
                  [] OTHER -> <<"error">>
    /\ isSubmitting' = FALSE
    /\ panelOp' = "insert_" \o outcome
    /\ sent' = <<>>
    /\ UNCHANGED <<post_id, error, panelLoading, mounted, loads>>
    /\ UNCHANGED <<svars, avars, uvars, jvars>>

\* handleSubmit reading the session again after the await and giving up
\* with the sign-in notification when there is none.
InsertResumeRechecking(i, outcome) ==
    /\ i \in 1..Len(submits)
    /\ submits' = Without(submits, i)
    /\ IF GetSession = Null
       THEN /\ notes' = <<"signin">>
            /\ UNCHANGED <<comments, commentText>>
       ELSE /\ comments' = IF outcome = "record"
                           THEN Prepend(Created(submits[i].payload), submits[i].comments)
                           ELSE comments
            /\ commentText' = IF outcome = "record" THEN <<>> ELSE commentText
            /\ notes' = CASE outcome = "record" -> <<"success">>
                          [] outcome = "norecord" -> <<>>
                          [] OTHER -> <<"error">>
    /\ isSubmitting' = FALSE
    /\ panelOp' = "insert_" \o outcome
    /\ sent' = <<>>
    /\ UNCHANGED <<post_id, error, panelLoading, mounted, loads>>
    /\ UNCHANGED <<svars, avars, uvars, jvars>>

\* handleSubmit resuming with the record put in the list and the draft left
\* for a later update.
InsertResumeKeepDraft(i, outcome) ==
    /\ i \in 1..Len(submits)
    /\ submits' = Without(submits, i)
    /\ comments' = IF outcome = "record"
                   THEN Prepend(Created(submits[i].payload), submits[i].comments)
                   ELSE comments
    /\ UNCHANGED commentText
    /\ notes' = CASE outcome = "record" -> <<"success">>
                  [] outcome = "norecord" -> <<>>
                  [] OTHER -> <<"error">>
    /\ isSubmitting' = FALSE
    /\ panelOp' = "insert_" \o outcome
    /\ sent' = <<>>
    /\ UNCHANGED <<post_id, error, panelLoading, mounted, loads>>
    /\ UNCHANGED <<svars, avars, uvars, jvars>>

\* handleSubmit resumes after the insert: with the created record, with
\* neither record nor error, with { error } (thrown into the catch), or the
\* insert rejects (caught as well); setIsSubmitting(false) runs in finally.
InsertResume(i, outcome) ==
    /\ i \in 1..Len(submits)
    /\ submits' = Without(submits, i)
    /\ CASE outcome = "record" ->
              /\ comments' = Prepend(Created(submits[i].payload), submits[i].comments)
              /\ commentText' = <<>>
              /\ notes' = <<"success">>
         [] outcome = "norecord" ->
              /\ notes' = <<>>
              /\ UNCHANGED <<comments, commentText>>
         [] outcome \in {"error", "reject"} ->
              /\ notes' = <<"error">>
              /\ UNCHANGED <<comments, commentText>>
    /\ isSubmitting' = FALSE
    /\ panelOp' = "insert_" \o outcome
    /\ sent' = <<>>
    /\ UNCHANGED <<post_id, error, panelLoading, mounted, loads>>
    /\ UNCHANGED <<svars, avars, uvars, jvars>>

\* The panel taken off the page and every listener of the store with it.
UnmountDetaching ==
    /\ mounted
    /\ mounted' = FALSE
    /\ panelOp' = "unmount"
    /\ notes' = <<>>
    /\ sent' = <<>>
    /\ listeners' = <<>>
    /\ UNCHANGED <<post_id, comments, error, panelLoading, commentText, isSubmitting,
                   loads, submits>>
    /\ UNCHANGED <<session, loading, initPc, fetchError, registered, authSession, events,
                   soCalls, seen, out, cap, scen, scenL, scenCalls>>
    /\ UNCHANGED <<avars, uvars, jvars>>

\* The panel is taken off the page; what it has in flight still completes.
Unmount ==
    /\ mounted
    /\ mounted' = FALSE
    /\ panelOp' = "unmount"
    /\ notes' = <<>>
    /\ sent' = <<>>
    /\ UNCHANGED <<post_id, comments, error, panelLoading, commentText, isSubmitting,
                   loads, submits>>
    /\ UNCHANGED <<svars, avars, uvars, jvars>>

PanelNext ==
    \/ \E txt \in Texts : Input(txt)
    \/ \E k \in Keys : PropChange(k)
    \/ \E i \in 1..MaxLoads, outcome \in {"rows", "empty", "error", "reject"} : LoadResume(i, outcome)
    \/ Submit
    \/ \E i \in 1..MaxComments, outcome \in {"record", "norecord", "error", "reject"} : InsertResume(i, outcome)
    \/ Unmount
    \/ \E ok \in BOOLEAN : FetchResolve(ok)
    \/ FetchReject

\* The panel on a page whose store is initializing: the visitor types, submits
\* and navigates while loads and inserts complete in any order.
SpecPanel == Init /\ [][PanelNext]_vars

FrameNext ==
    \/ \E txt \in Texts : Input(txt)
    \/ \E i \in 1..MaxLoads, outcome \in {"rows", "empty", "error", "reject"} : LoadResume(i, outcome)
    \/ Submit
    \/ \E i \in 1..MaxComments, outcome \in {"record", "norecord", "error", "reject"} : InsertResume(i, outcome)
    \/ Unmount
    \/ \E ok \in BOOLEAN : FetchResolve(ok)
    \/ FetchReject
    \/ \E l \in Listeners : Subscribe(l)
    \/ \E l \in Listeners : Unsubscribe(l)

\* The panel (kept on one content key) on a page where other components
\* subscribe to and unsubscribe from the store.
SpecFrame == Init /\ [][FrameNext]_vars

SubmitNext ==
    \/ \E txt \in Texts : Input(txt)
    \/ Submit
    \/ \E i \in 1..MaxComments, outcome \in {"record", "norecord", "error", "reject"} : InsertResume(i, outcome)
    \/ \E ok \in BOOLEAN : FetchResolve(ok)
    \/ FetchReject
    \/ \E s \in AnySession : ExternalEvent(s)
    \/ Deliver

\* The visitor writes and submits comments (on a panel whose first load is
\* still pending) while the auth service reports session changes: sign-in,
\* token refresh, sign-out, another account.
SpecSubmit == Init /\ [][SubmitNext]_vars

\* The records an insert can send or return.
Records == [post_id : Keys, comment_text : Texts, user_id : {s[1] : s \in AnySession \ {Null}}]

\* Every row the panel can hold.
Rows == Records \cup UNION {Range(Stored(k)) : k \in Keys}

PanelTypeOK ==
    /\ post_id \in Keys
    /\ comments \in Seq(Rows) /\ Len(comments) <= MaxComments
    /\ error \in BOOLEAN
    /\ panelLoading \in BOOLEAN
    /\ commentText \in Texts
    /\ isSubmitting \in BOOLEAN
    /\ mounted \in BOOLEAN
    /\ loads \in Seq(Keys) /\ Len(loads) <= MaxLoads
    /\ \A i \in 1..Len(submits) :
         /\ submits[i].payload \in Records
         /\ submits[i].comments \in Seq(Rows)
    /\ panelOp \in {"mount", "input", "rerender", "load", "submit_nosession", "submit_sent",
                    "submit_blank", "insert_record", "insert_norecord", "insert_error",
                    "insert_reject", "unmount"}
    /\ notes \in Seq({"signin", "success", "error"})
    /\ sent \in Seq(Records)



\* What the comments list renders.
\* {loading && <div>{messages.loading}</div>}
ShowsLoading == panelLoading

\* {error && <div class="text-red-500">{messages.error}</div>}
ShowsError == error

\* {!loading && !error && comments.length === 0 && messages.noComments}
ShowsEmpty == ~panelLoading /\ ~error /\ Len(comments) = 0

\* {!loading && !error && comments.map(...)}
ShowsList == ~panelLoading /\ ~error /\ Len(comments) > 0

\* ============================================================ author names
\* A name of a profile: absent (null), or present with its text.
NoName == <<>>
NameTexts == {<<>>, <<" ">>, <<"A">>}
Names == {NoName} \cup {<<s>> : s \in NameTexts}

\* Profile | null: absent, or present with its two names.
NoProfile == <<>>
Profiles == {NoProfile} \cup {<< [first_name |-> f, last_name |-> l] >> : f, l \in Names}

\* name ?? ""
OrEmpty(n) == IF n = NoName THEN <<>> ELSE n[1]

\* The anonymous label.
Anonymous == <<"Anonymous">>

\* The name shown only for profiles with both names given.
getAuthorStrict(profile) ==
    IF profile = NoProfile THEN Anonymous
    ELSE IF OrEmpty(profile[1].first_name) = <<>> \/ OrEmpty(profile[1].last_name) = <<>>
         THEN Anonymous
         ELSE Trim(OrEmpty(profile[1].first_name) \o <<" ">> \o OrEmpty(profile[1].last_name))

\* getAuthor: "Anonymous" without a profile, else
\* `${first_name ?? ""} ${last_name ?? ""}`.trim() || "Anonymous"
getAuthor(profile) ==
    IF profile = NoProfile THEN Anonymous
    ELSE LET name == Trim(OrEmpty(profile[1].first_name) \o <<" ">>
                          \o OrEmpty(profile[1].last_name))
         IN IF name = <<>> THEN Anonymous ELSE name

\* One more comment is in the list handed to the rendering, with its profile.
ShowComment(p) ==
    /\ Len(profiles) < MaxShown
    /\ profiles' = Append(profiles, p)
    /\ UNCHANGED authors
    /\ UNCHANGED <<svars, pvars, uvars, jvars>>

\* CommentComponent renders the next comment: const author = getAuthor(...)
RenderComment ==
    /\ Len(authors) < Len(profiles)
    /\ authors' = Append(authors, getAuthor(profiles[Len(authors) + 1]))
    /\ UNCHANGED profiles
    /\ UNCHANGED <<svars, pvars, uvars, jvars>>

AuthorNext ==
    \/ \E p \in Profiles : ShowComment(p)
    \/ RenderComment

\* The rendering of comments with every kind of profile.
SpecAuthor == Init /\ [][AuthorNext]_vars

AuthorTypeOK ==
    /\ profiles \in Seq(Profiles) /\ Len(profiles) <= MaxShown
    /\ Len(authors) <= Len(profiles)

\* ========================================================== AuthStatus
\* The auth service's session changes; it emits the new session to the
\* callback the component registered.
AuthChange(s) ==
    /\ Len(asEvents) < MaxStatusEvents
    /\ asAuth' = s
    /\ asEvents' = Append(asEvents, s)
    /\ UNCHANGED <<asSession, asLoading, asPc, asFetched, asDetail>>
    /\ UNCHANGED <<svars, pvars, avars, jvars>>

\* The auth service answers the effect's getSession() with the session it
\* holds; the component's continuation has not run yet.
AnswerGetSession ==
    /\ asPc = "fetching"
    /\ asFetched' = asAuth
    /\ asPc' = "answered"
    /\ UNCHANGED <<asSession, asLoading, asEvents, asAuth, asDetail>>
    /\ UNCHANGED <<svars, pvars, avars, jvars>>

\* The continuation of getSession(): setSession, setLoading(false), dispatch.
GetSessionResume ==
    /\ asPc = "answered"
    /\ asSession' = asFetched
    /\ asLoading' = FALSE
    /\ asDetail' = <<asFetched>>
    /\ asPc' = "done"
    /\ UNCHANGED <<asFetched, asEvents, asAuth>>
    /\ UNCHANGED <<svars, pvars, avars, jvars>>

\* The callback given to onAuthStateChange runs: setSession, dispatch.
HandleChange ==
    /\ asEvents # <<>>
    /\ asSession' = Head(asEvents)
    /\ asDetail' = <<Head(asEvents)>>
    /\ asEvents' = Tail(asEvents)
    /\ UNCHANGED <<asLoading, asPc, asFetched, asAuth>>
    /\ UNCHANGED <<svars, pvars, avars, jvars>>

\* The Sign Out button, rendered when a session is shown: the service
\* signs out and emits the absent session.
handleSignOut ==
    /\ ~asLoading
    /\ asSession # Null
    /\ Len(asEvents) < MaxStatusEvents
    /\ asAuth' = Null
    /\ asEvents' = Append(asEvents, Null)
    /\ UNCHANGED <<asSession, asLoading, asPc, asFetched, asDetail>>
    /\ UNCHANGED <<svars, pvars, avars, jvars>>

StatusNext ==
    \/ \E s \in SessionOrNull : AuthChange(s)
    \/ AnswerGetSession
    \/ GetSessionResume
    \/ HandleChange
    \/ handleSignOut

\* The AuthStatus component polling the auth service directly.
SpecStatus == InitStatus /\ [][StatusNext]_vars

StatusTypeOK ==
    /\ asSession \in SessionOrNull
    /\ asLoading \in BOOLEAN
    /\ asPc \in {"fetching", "answered", "done"}
    /\ asFetched \in SessionOrNull
    /\ Len(asEvents) <= MaxStatusEvents
    /\ asAuth \in SessionOrNull
    /\ Len(asDetail) <= 1

\* ============================================================ getAllProjects
\* An entry is added to the project collection.
AddProject(d) ==
    /\ Len(projects) < MaxProjects
    /\ projects' = Append(projects, [id |-> Len(projects) + 1, draft |-> d])
    /\ UNCHANGED <<prod, result>>
    /\ UNCHANGED <<svars, pvars, avars, uvars>>

\* !data.draft
NotDraft(e) == e.draft # <<TRUE>>

\* A filter that drops drafts in every environment.
KeepsNoDrafts(e, p) == NotDraft(e)

\* The filter handed to getCollection: PROD ? !data.draft : true
Keeps(e, p) == IF p THEN NotDraft(e) ELSE TRUE

\* getAllProjects(): the collection's entries that the filter keeps.
getAllProjects ==
    /\ result' = <<SelectSeq(projects, LAMBDA e : Keeps(e, prod))>>
    /\ UNCHANGED <<projects, prod>>
    /\ UNCHANGED <<svars, pvars, avars, uvars>>

ProjectNext ==
    \/ \E d \in Drafts : AddProject(d)
    \/ getAllProjects

\* The project collection being filled and queried.
SpecProject == InitProject /\ [][ProjectNext]_vars

ProjectTypeOK ==
    /\ Len(projects) <= MaxProjects
    /\ \A i \in 1..Len(projects) : projects[i].id = i /\ projects[i].draft \in Drafts
    /\ prod \in BOOLEAN
    /\ Len(result) <= 1

\* ======================================================================
\* Properties
\* ======================================================================

\* The invocations of listener l in q all carry session value s.
AllWith(q, l, s) == \A i \in 1..Len(q) : q[i][1] = l => q[i][2] = s

\* A step in which the onAuthStateChange callback ran (the only one that
\* takes a notification off the pending ones).
DeliverStep == events # <<>> /\ events' = Tail(events)

\* C1: whenever a handler (and so every notification pass it makes) has
\* completed, each currently subscribed listener has been invoked and the
\* session it was last invoked with is the store's current session; all
\* subscribers therefore agree on one current session.
C1_SubscribersAgree ==
    \A l \in Subscribed : seen[l] # Unseen /\ seen[l][1] = session

\* Two subscribers hold the present session that a pass has just given
\* both of them, after initialization.
C1_Witness ==
    /\ initPc = "done"
    /\ Len(listeners) = 2
    /\ session # Null
    /\ Len(out) = 2
    /\ \A l \in Subscribed : Times(out, l) = 1 /\ seen[l] = <<session, loading>>

\* C2: a step that subscribes a listener invokes exactly that listener,
\* once, with the current session (and loading flag) and changes neither;
\* and every step that changes the stored session invokes every listener
\* that is subscribed before and after it, with the new session.
C2_ReplayThenFollow ==
    [][\A l \in Listeners :
         /\ (l \notin Subscribed /\ l \in Subscribed')
               => /\ out' = << <<l, session, loading>> >>
                  /\ session' = session
                  /\ loading' = loading
         /\ (l \in Subscribed /\ l \in Subscribed' /\ session' # session)
               => /\ Times(out', l) >= 1
                  /\ AllWith(out', l, session')
                  /\ seen'[l][1] = session']_vars

\* A listener that got the replay (absent) at subscribe time has now been
\* invoked with the present session a delivered notification brought.
C2_Witness ==
    /\ scen = 3
    /\ scenCalls = 2
    /\ scenL \in Subscribed
    /\ out = << <<scenL, session, loading>> >>
    /\ session # Null

\* C3: the step that first subscribes a listener invokes it exactly once
\* (the replay); the step that uses its unsubscribe capability invokes
\* nobody and leaves it unsubscribed; and while the capability stays used
\* no step invokes that listener, whatever the step is.
C3_ReplayOnly ==
    [][\A l \in Listeners :
         /\ (cap[l] = "none" /\ cap'[l] = "held") => Times(out', l) = 1
         /\ (cap[l] = "held" /\ cap'[l] = "used")
               => out' = <<>> /\ l \notin Subscribed'
         /\ (cap[l] = "used" /\ cap'[l] = "used")
               => Times(out', l) = 0 /\ l \notin Subscribed']_vars

\* A listener has unsubscribed and a later notification pass, for a changed
\* session, went to the other listener only.
C3_Witness ==
    \E l \in Listeners :
        /\ cap[l] = "used"
        /\ scen = 3
        /\ scenL # l
        /\ out = << <<scenL, session, loading>> >>

\* C4: a step that uses the unsubscribe capability of listener l removes l
\* only: every other listener is subscribed after it exactly if it was
\* before, keeps its position and its last observed value; and every step
\* that changes the session invokes every listener still subscribed.
C4_Independent ==
    [][/\ \A l \in Listeners :
            (cap[l] = "held" /\ cap'[l] = "used")
               => /\ \A m \in Listeners \ {l} :
                       /\ (m \in Subscribed <=> m \in Subscribed')
                       /\ seen'[m] = seen[m]
                  /\ listeners' = SelectSeq(listeners, LAMBDA m : m # l)
       /\ session' # session
            => \A m \in Subscribed' : Times(out', m) >= 1 /\ seen'[m][1] = session']_vars

\* After l1 unsubscribed, l2 is still registered and has just been invoked
\* (twice, by initialize) with the session the first fetch brought.
C4_Witness ==
    /\ cap["l1"] = "used"
    /\ listeners = <<"l2">>
    /\ session # Null
    /\ out = << <<"l2", session, FALSE>>, <<"l2", session, FALSE>> >>

\* C5: when the change callback runs for a notification carrying n: if n
\* equals the stored session, the stored session stays and no listener is
\* invoked; otherwise the stored session becomes n and every subscriber is
\* invoked exactly once, with n.
C5_CompareThenNotify ==
    [][DeliverStep =>
         LET n == Head(events)
         IN IF n = session
            THEN session' = session /\ out' = <<>> /\ seen' = seen
            ELSE /\ session' = n
                 /\ Len(out') = Len(listeners)
                 /\ \A l \in Subscribed :
                       Times(out', l) = 1 /\ seen'[l] = <<n, loading>>]_vars

\* No signOut() was ever called and one pass has just gone to both
\* subscribers: a delivered notification replaced the stored session, here
\* by one that differs in the access token at most from the one before.
C5_Witness ==
    /\ scen = 0
    /\ initPc = "done"
    /\ soCalls = <<>>
    /\ events = <<>>
    /\ session = <<"u1", "t2">>
    /\ authSession = session
    /\ Len(listeners) = 2
    /\ Len(out) = 2
    /\ \A l \in Subscribed : seen[l] = <<session, loading>>

\* C6 as stated: at the end of the scenario the listener has been invoked
\* exactly three times.
C6_ThreeInvocations == scen = 8 => scenCalls = 3

\* C6 amended: in that scenario the listener is invoked once at subscribe
\* and once more for the delivered session, and at the end it has been
\* invoked exactly five times: signOut() invokes it through setLoading(true)
\* and setLoading(false) besides the one invocation for the sign-out
\* notification.
C6_FiveInvocations ==
    /\ scen = 1 => scenCalls = 1 /\ seen[scenL] = <<Null, FALSE>>
    /\ scen = 3 => scenCalls = 2 /\ seen[scenL][1] # Null
    /\ scen = 4 => scenCalls = 3
    /\ scen = 8 => scenCalls = 5 /\ seen[scenL] = <<Null, FALSE>>

\* The scenario has run to its end.
C6_Witness == scen = 8 /\ scenL \in Subscribed /\ session = Null

\* C7: no signOut() step (the call, or its resumption) changes the stored
\* session, and the stored session goes from present to absent only in a
\* step that delivers a sign-out notification.
C7_SignOutKeepsSession ==
    [][/\ soCalls' # soCalls => session' = session
       /\ (session # Null /\ session' = Null)
            => DeliverStep /\ Head(events) = Null]_vars

\* signOut() has returned after a successful sign-out and the stored
\* session is still present.
C7_Witness ==
    \E i \in 1..Len(soCalls) :
        /\ soCalls[i] = [st |-> "returned", svc |-> "ok"]
        /\ session # Null
        /\ events = <<Null>>

\* C8: the step in which the initial fetch fails leaves the store Signed-Out
\* (session absent, not loading), raises nothing, and leaves the change
\* callback registered so that later notifications are followed.
C8_FailedFetchSignedOut ==
    [][(initPc = "fetching" /\ fetchError')
         => /\ session' = Null
            /\ loading' = FALSE
            /\ initPc' = "done"
            /\ registered' > 0]_vars

\* The store's logical state.
StoreState ==
    IF loading THEN "Unknown" ELSE IF session = Null THEN "SignedOut" ELSE "SignedIn"

\* C9 as stated: once the first fetch has resolved the store is never Unknown.
C9_NeverUnknownAgain == initPc = "done" => StoreState # "Unknown"

\* After initialization the store is Unknown only if some signOut() call
\* has not completed normally (still awaiting the service, or thrown).
UnknownOnlyDuringSignOut ==
    (initPc = "done" /\ StoreState = "Unknown")
        => \E i \in 1..Len(soCalls) : soCalls[i].st \in {"sent", "signedOut", "thrown"}

\* C9 amended: the step that resolves the first fetch leaves the store
\* Signed-In or Signed-Out; once the first fetch has resolved the store is
\* Unknown only while some signOut() call has not completed normally; and a
\* delivered notification never changes whether it is Unknown.
C9_UnknownOnlyDuringSignOut ==
    [][/\ UnknownOnlyDuringSignOut'
       /\ (initPc = "fetching" /\ initPc' = "done")
            => StoreState' = (IF session' = Null THEN "SignedOut" ELSE "SignedIn")
       /\ DeliverStep => loading' = loading]_vars

\* After the first fetch the store is Unknown again, with a session stored,
\* while a signOut() call awaits the service.
C9_Witness ==
    /\ initPc = "done"
    /\ StoreState = "Unknown"
    /\ session # Null
    /\ \E i \in 1..Len(soCalls) : soCalls[i].st = "sent"

\* C10: a signOut() step in which the service call fails ends with the
\* failure thrown to the caller, and leaves the stored session unchanged.
C10_FailureSurfaced ==
    [][\A i \in 1..Len(soCalls) :
          (soCalls[i].st = "sent" /\ soCalls'[i].svc \in {"error", "reject"})
             => soCalls'[i].st = "thrown" /\ session' = session]_vars

\* Position of listener l in the sequence q (0 when absent).
Pos(q, l) == IF l \in Range(q) THEN CHOOSE i \in 1..Len(q) : q[i] = l ELSE 0

\* The invocation sequence q consists of whole passes over the listeners ls,
\* each in the order of ls.
InOrder(q, ls) ==
    /\ Len(ls) > 0
    /\ Len(q) % Len(ls) = 0
    /\ \A i \in 1..Len(q) : q[i][1] = ls[((i - 1) % Len(ls)) + 1]

\* C11: a listener that becomes subscribed is placed after all subscribed
\* ones, no step changes the relative order of listeners that stay
\* subscribed, and every step that invokes listeners other than by the
\* replay of subscribe invokes all subscribers in that order.
C11_SubscriptionOrder ==
    [][/\ \A l \in Listeners :
            (l \notin Subscribed /\ l \in Subscribed') => listeners' = Append(listeners, l)
       /\ \A l, m \in Subscribed \cap Subscribed' :
            (Pos(listeners, l) < Pos(listeners, m)) <=> (Pos(listeners', l) < Pos(listeners', m))
       /\ (out' # <<>> /\ ~(\E l \in Listeners : Subscribe(l)))
            => listeners' = listeners /\ InOrder(out', listeners)]_vars

\* l2 subscribed before l1 (or l1 left and subscribed again), and a pass
\* has just invoked l2 first and l1 second.
C11_Witness ==
    /\ listeners = <<"l2", "l1">>
    /\ Len(out) = 2
    /\ out[1][1] = "l2"
    /\ out[2][1] = "l1"

\* C12: at most one change callback is ever registered with the auth
\* service, and it is registered exactly when the one initialize() call
\* has got past its fetch.
C12_OneChangeCallback ==
    /\ registered <= 1
    /\ registered = 1 <=> initPc = "done"

\* The one registered callback has a notification waiting for it.
C12_Witness == registered = 1 /\ events # <<>> /\ initPc = "done"

\* A step of the comment panel: one of its handlers ran.
PanelStep ==
    \/ \E txt \in Texts : Input(txt)
    \/ \E k \in Keys : PropChange(k)
    \/ \E i \in 1..Len(loads), outcome \in {"rows", "empty", "error", "reject"} : LoadResume(i, outcome)
    \/ Submit
    \/ \E i \in 1..Len(submits), outcome \in {"record", "norecord", "error", "reject"} : InsertResume(i, outcome)
    \/ Unmount

\* C13: the stored session changes only in the store's own paths (the first
\* fetch resuming, a change notification delivered); subscribe and unsubscribe
\* leave the session alone, and every step of the comment panel -- typing,
\* submit (which reads getSession), load and insert completions, also of a
\* panel taken off the page -- leaves the whole store as it was: session,
\* listeners, and what is in flight at the auth service.
C13_SessionFrame ==
    [][/\ session' # session => ((\E ok \in BOOLEAN : FetchResolve(ok)) \/ Deliver)
       /\ (\E l \in Listeners : Subscribe(l) \/ Unsubscribe(l)) =>
            /\ session' = session
            /\ <<initPc, authSession, events, soCalls>>' = <<initPc, authSession, events, soCalls>>
       /\ PanelStep => svars' = svars]_vars

\* A discarded panel's insert completed with a record while another component
\* is subscribed and a session is stored.
C13_Witness ==
    /\ ~mounted
    /\ panelOp = "insert_record"
    /\ session # Null
    /\ listeners # <<>>

\* C14: a submit whose draft is empty after trimming issues no insert and
\* emits no notification; every insert issued or in flight carries a text
\* that is non-empty after trimming.
C14_BlankNeverSent ==
    [][/\ (Submit /\ Trim(commentText) = <<>>) =>
            /\ sent' = <<>>
            /\ submits' = submits
            /\ notes' = <<>>
       /\ \A i \in 1..Len(sent') : Trim(sent'[i].comment_text) # <<>>
       /\ \A i \in 1..Len(submits') : Trim(submits'[i].payload.comment_text) # <<>>]_vars

\* A whitespace-only draft was submitted while a session was stored.
C14_Witness ==
    /\ panelOp = "submit_blank"
    /\ commentText = <<" ">>
    /\ session # Null

\* C15: a submit with a draft that has content while the store holds no
\* session issues no insert, emits the sign-in notification (not the
\* insert-failure one), and leaves the draft and the comment list unchanged.
C15_NoSessionNoInsert ==
    [][(Submit /\ Trim(commentText) # <<>> /\ session = Null) =>
          /\ sent' = <<>>
          /\ submits' = submits
          /\ notes' = <<"signin">>
          /\ commentText' = commentText
          /\ comments' = comments]_vars

\* A draft with content was submitted without a session, over a loaded list.
C15_Witness ==
    /\ panelOp = "submit_nosession"
    /\ session = Null
    /\ Trim(commentText) # <<>>
    /\ comments # <<>>

\* C16: when the insert resolves with a record, the comment list's first
\* element is that record and the draft is cleared.
C16_SuccessPrepends ==
    [][\A i \in 1..Len(submits) :
          InsertResume(i, "record") =>
             /\ comments' # <<>>
             /\ comments'[1] = Created(submits[i].payload)
             /\ commentText' = <<>>]_vars

\* An insert succeeded over a list that already held a comment.
C16_Witness ==
    /\ panelOp = "insert_record"
    /\ Len(comments) = 2
    /\ comments[1].comment_text = <<" ", "h">>
    /\ commentText = <<>>

\* C17: when the insert fails (an error result or a rejection), the comment
\* list and the draft are left as they were.
C17_FailureKeepsDraft ==
    [][\A i \in 1..Len(submits), outcome \in {"error", "reject"} :
          InsertResume(i, outcome) =>
             /\ comments' = comments
             /\ commentText' = commentText]_vars

\* An insert failed and the submitted draft is still in the input.
C17_Witness ==
    /\ panelOp \in {"insert_error", "insert_reject"}
    /\ commentText = <<" ", "h">>
    /\ notes = <<"error">>

\* C18: every handler run that ends a submit attempt with a valid draft (no
\* session, insert success with a record, insert without record, insert
\* failure) emits exactly one notification.
C18_ExactlyOneNotification ==
    panelOp \in {"submit_nosession", "insert_record", "insert_norecord", "insert_error",
                 "insert_reject"}
       => Len(notes) = 1

C20_DisabledWhileInFlight == submits # <<>> => isSubmitting

\* An insert still in flight after a load of the panel completed.
C20_Witness ==
    /\ submits # <<>>
    /\ isSubmitting
    /\ panelOp = "load"

\* C21: the empty state and the error state are never shown together; the
\* empty state appears only when the load for the current content key
\* completes with an empty result, and is not shown for a key whose load has
\* not completed; a load that fails (error result or rejection) ends with the
\* error state shown and neither the empty nor the loading state.
C21_EmptyVersusError ==
    [][/\ ~(ShowsEmpty' /\ ShowsError')
       /\ (ShowsEmpty' /\ ~ShowsEmpty) =>
            \E i \in 1..Len(loads) : LoadResume(i, "empty") /\ loads[i] = post_id
       /\ (\E k \in Keys : PropChange(k)) => ~ShowsEmpty'
       /\ \A i \in 1..Len(loads), outcome \in {"error", "reject"} :
            LoadResume(i, outcome) => ShowsError' /\ ~ShowsEmpty' /\ ~ShowsLoading']_vars

\* C22: when the panel shows the result of the load for its current content
\* key and the response that arrives last is for a key it no longer shows,
\* that response is discarded: the list and the error indication stay those
\* of the current key.
C22_StaleDiscarded ==
    [][\A i \in 1..Len(loads), outcome \in {"rows", "empty", "error"} :
          (/\ LoadResume(i, outcome)
           /\ Len(loads) = 1
           /\ loads[i] # post_id
           /\ ~ShowsLoading /\ ~ShowsError) =>
             <<comments, error>>' = <<comments, error>>]_vars

\* C26: when an insert resolves with a record, the new list is the record
\* followed by the whole list as it stood just before.
C26_NothingDropped ==
    [][\A i \in 1..Len(submits) :
          InsertResume(i, "record") =>
             comments' = <<Created(submits[i].payload)>> \o comments]_vars

\* C28: the record of an insert in flight enters the list in the same step in
\* which the draft is cleared, and apart from typing nothing else changes the
\* draft: no state has the new comment listed with the draft not yet
\* cleared, or the draft cleared with the comment not yet listed.
C28_AtomicUpdate ==
    [][LET entered == \E i \in 1..Len(submits) :
                         /\ comments' # comments
                         /\ comments' # <<>>
                         /\ comments'[1] = Created(submits[i].payload)
       IN /\ entered => commentText' = <<>>
          /\ (commentText' # commentText /\ ~(\E txt \in Texts : Input(txt))) => entered]_vars

\* The first comment of the panel was accepted: it is listed and the draft
\* is empty.
C28_Witness ==
    /\ panelOp = "insert_record"
    /\ Len(comments) = 1
    /\ comments[1].user_id = "u1"
    /\ commentText = <<>>

\* C30: whenever no insert is in flight the submit button is enabled.
C30_ReenabledWhenIdle == submits = <<>> => ~isSubmitting

\* C23: what the completion of an insert does to the list, the draft and the
\* notifications is fixed by the insert's result and by what the submit
\* captured, whatever session the store holds by then (none, the same, or
\* another one), and it leaves the stored session alone.
C23_SubmitOwnsOutcome ==
    [][\A i \in 1..Len(submits), outcome \in {"record", "norecord", "error", "reject"} :
          InsertResume(i, outcome) =>
             /\ comments' = IF outcome = "record"
                            THEN <<Created(submits[i].payload)>> \o submits[i].comments
                            ELSE comments
             /\ commentText' = IF outcome = "record" THEN <<>> ELSE commentText
             /\ notes' = CASE outcome = "record" -> <<"success">>
                           [] outcome = "norecord" -> <<>>
                           [] OTHER -> <<"error">>
             /\ session' = session]_vars

\* The sign-out was delivered while the insert was in flight (a submit needs
\* a session), and the insert then succeeded.
C23_Witness ==
    /\ panelOp = "insert_record"
    /\ session = Null
    /\ notes = <<"success">>
    /\ comments # <<>>

\* C25: the run of the change callback dispatches no notification and
\* touches nothing of the panel; it only takes the event, stores the session
\* and invokes the subscribers.
C25_PassiveChangeSilent ==
    [][Deliver => notes' = notes /\ pvars' = pvars]_vars

\* A sign-out made elsewhere was delivered while an insert was in flight,
\* and nothing was announced.
C25_Witness ==
    /\ session = Null
    /\ authSession = Null
    /\ events = <<>>
    /\ registered = 1
    /\ submits # <<>>
    /\ notes = <<>>

\* C27: a submit that issues an insert issues exactly one, carrying the
\* panel's content key, the draft, and the user id of the session the store
\* holds at that moment; no other step issues an insert, and the payload of
\* an insert in flight never changes, whatever happens to the session.
C27_PayloadOfSubmit ==
    [][/\ (Submit /\ sent' # <<>>) =>
            /\ session # Null
            /\ sent' = << [post_id |-> post_id, comment_text |-> commentText,
                           user_id |-> session[1]] >>
            /\ submits' = Append(submits, [payload |-> sent'[1], comments |-> comments])
       /\ ~Submit => sent' \in {<<>>, sent}
       /\ Len(submits') >= Len(submits) => SubSeq(submits', 1, Len(submits)) = submits]_vars

\* An insert tagged with the first account is in flight while the store
\* already holds the session of another account.
C27_Witness ==
    /\ submits # <<>>
    /\ submits[1].payload.user_id = "u1"
    /\ session = OtherSession

\* C24: the module-level initialize() never ends in an uncaught rejection,
\* and no signOut() call ends by throwing.
C24_NothingUncaught ==
    /\ initPc # "failed"
    /\ \A i \in 1..Len(soCalls) : soCalls[i].st # "thrown"

\* A name is missing when it is absent or the empty string.
Missing(n) == OrEmpty(n) = <<>>

\* C29 as stated: every rendered name is "Anonymous" when the profile is
\* absent or one of its names is missing, and the trimmed
\* "first_name last_name" otherwise.
C29_AnonymousWhenIncomplete ==
    \A i \in 1..Len(authors) :
        LET p == profiles[i]
        IN authors[i] =
             IF p = NoProfile \/ Missing(p[1].first_name) \/ Missing(p[1].last_name)
             THEN Anonymous
             ELSE Trim(p[1].first_name[1] \o <<" ">> \o p[1].last_name[1])

\* A name is blank when it is absent, empty or only white space.
Blank(n) == \A j \in 1..Len(OrEmpty(n)) : OrEmpty(n)[j] = " "

\* C29: every rendered name is "Anonymous" exactly when the profile is
\* absent or both its names are blank; otherwise it is "first_name
\* last_name" with an absent name taken as empty, trimmed at both ends, so
\* that a profile with one name shows that name.
C29_AuthorName ==
    \A i \in 1..Len(authors) :
        LET p == profiles[i]
        IN IF p = NoProfile \/ (Blank(p[1].first_name) /\ Blank(p[1].last_name))
           THEN authors[i] = Anonymous
           ELSE /\ authors[i] # Anonymous
                /\ authors[i] # <<>>
                /\ authors[i][1] # " " /\ authors[i][Len(authors[i])] # " "
                /\ authors[i] = Trim(OrEmpty(p[1].first_name) \o <<" ">>
                                     \o OrEmpty(p[1].last_name))
                /\ Blank(p[1].last_name) => authors[i] = Trim(OrEmpty(p[1].first_name))
                /\ Blank(p[1].first_name) => authors[i] = Trim(OrEmpty(p[1].last_name))

\* A comment whose profile has a first name and no last name was rendered
\* with the first name, next to one without profile rendered as anonymous.
C29_Witness ==
    /\ Len(authors) = 2
    /\ profiles[1] = << [first_name |-> <<(<<"A">>)>>, last_name |-> NoName] >>
    /\ authors[1] = <<"A">>
    /\ profiles[2] = NoProfile
    /\ authors[2] = Anonymous

\* C31: a submit of a valid draft made before the first fetch has resolved,
\* by a visitor who has a session at the auth service, does not end with the
\* sign-in notification.
C31_UnknownNotRejected ==
    [][(Submit /\ Valid(commentText) /\ initPc = "fetching" /\ authSession # Null)
          => notes' # <<"signin">>]_vars

\* C32: when the only load in flight, the one for the current content key,
\* completes successfully, the error state is not shown and the list is that
\* load's result.
C32_LatestLoadShown ==
    [][\A i \in 1..Len(loads), outcome \in {"rows", "empty"} :
          (LoadResume(i, outcome) /\ loads = <<post_id>>) =>
             /\ ~ShowsError'
             /\ comments' = IF outcome = "rows" THEN Stored(post_id) ELSE <<>>]_vars

\* C33: loading is true whenever the first fetch or some signOut() call is
\* in flight.
C33_LoadingWhileInFlight ==
    (initPc = "fetching" \/ \E i \in 1..Len(soCalls) : Outstanding(soCalls[i])) => loading

\* C34: once the first fetch and every signOut() call have completed,
\* successfully or not, loading is false.
C34_LoadingReleased ==
    (initPc # "fetching" /\ \A i \in 1..Len(soCalls) : ~Outstanding(soCalls[i])) => ~loading

\* The invocations of listener l in the invocation sequence q, in order.
CallsOf(q, l) == SelectSeq(q, LAMBDA e : e[1] = l)

\* C35: apart from the replay of subscribe, no step invokes a listener with
\* the (session, loading) pair of its previous invocation, be that previous
\* invocation in an earlier step or in the same one.
C35_OnlyOnChange ==
    [][\A l \in Listeners :
          LET c == CallsOf(out', l)
          IN (c # <<>> /\ ~Subscribe(l)) =>
                /\ seen[l] # Unseen => <<c[1][2], c[1][3]>> # seen[l]
                /\ \A j \in 1..(Len(c) - 1) : c[j] # c[j + 1]]_vars

\* C36: a listener whose unsubscribe closure has been called is not subscribed
\* and is invoked by no later step until it subscribes again, also when the
\* closure is called by another listener during a pass that has not reached
\* it yet (that pass skips it); calling the closure again changes nothing in
\* the store.
C36_UnsubscribedSilent ==
    [][/\ \A l \in Listeners :
             /\ cap'[l] \in {"used", "usedInPass"} => l \notin Subscribed'
             /\ (l \notin Subscribed /\ ~Subscribe(l)) => Times(out', l) = 0
             /\ (Unsubscribe(l) /\ cap[l] \in {"used", "usedInPass"}) =>
                   /\ listeners' = listeners
                   /\ session' = session /\ loading' = loading
       /\ \A a, u \in Listeners :
             DeliverUnsubscribing(a, u) =>
                /\ Times(out', a) = 1
                /\ Times(out', u) = 0
                /\ u \notin Subscribed']_vars

\* A pass has invoked one listener, which unsubscribed the other before the
\* pass reached it: the other one still holds the previous session.
C36_Witness ==
    \E a, u \in Listeners :
       /\ a # u
       /\ cap[u] = "usedInPass"
       /\ listeners = <<a>>
       /\ out = <<<<a, session, loading>>>>
       /\ seen[u] \notin {Unseen, <<session, loading>>}

\* C37: subscribing a listener that is subscribed leaves the listeners and
\* their order as they are and invokes only that listener, once, with the
\* current state; a change notification invokes every subscribed listener
\* exactly once; one call of the unsubscribe closure removes the listener
\* however often it subscribed.
C37_SubscribeTwice ==
    [][/\ \A l \in Listeners :
             /\ (Subscribe(l) /\ l \in Subscribed) =>
                   /\ listeners' = listeners
                   /\ out' = <<<<l, session, loading>>>>
             /\ Unsubscribe(l) => l \notin Subscribed'
       /\ (Deliver /\ out' # <<>>) =>
             /\ Len(out') = Len(listeners)
             /\ \A l \in Subscribed : Times(out', l) = 1]_vars

\* The first of two listeners has just subscribed a second time: it was
\* replayed alone and is still first.
C37_Witness ==
    /\ listeners = <<"l1", "l2">>
    /\ out = <<<<"l1", session, loading>>>>
    /\ cap["l1"] = "held"
    /\ cap["l2"] = "held"


\* C38: one session-change event, emitted to all the change callbacks that
\* the runs of initialize() have registered, invokes every subscribed
\* listener at most once, and exactly once when the event's session differs
\* from the stored one.
C38_OncePerEvent ==
    [][DeliverAll =>
          \A l \in Subscribed :
             Times(out', l) = IF Stringify(session) # Stringify(Head(events)) THEN 1 ELSE 0]_vars

\* Two callbacks are registered, and an event that changed the session has
\* invoked each of the two subscribed listeners once.
C38_Witness ==
    /\ registered = 2
    /\ initPc = "done"
    /\ Len(listeners) = 2
    /\ \A l \in Listeners : Times(out, l) = 1
    /\ \A i \in 1..Len(out) : out[i][2] = session /\ out[i][3] = FALSE
    /\ session # Null


\* C39: once the AuthStatus component's initial getSession() has resolved
\* and every emitted auth-change event has been handled, the session it
\* shows is the one the auth service holds.
C39_ShowsLatest ==
    (asPc = "done" /\ asEvents = <<>>) => asSession = asAuth

\* The entries of q that are in the sequence r, in the order of q.
Kept(q, r) == SelectSeq(q, LAMBDA e : e \in Range(r))

\* C40: getAllProjects() returns, in collection order and without
\* repetition, exactly the entries that are not drafts when PROD is set, and
\* exactly all entries otherwise.
C40_DraftFilter ==
    [][getAllProjects =>
          LET r == result'[1]
          IN /\ \A i \in 1..Len(projects) :
                   projects[i] \in Range(r) <=> (prod => projects[i].draft # <<TRUE>>)
             /\ Range(r) \subseteq Range(projects)
             /\ Kept(projects, r) = r]_vars

\* In production a collection of a draft, an entry marked as no draft and an
\* entry without the mark has been queried: the last two were returned.
C40_Witness ==
    /\ prod
    /\ Len(projects) = 3
    /\ projects[1].draft = <<TRUE>>
    /\ projects[2].draft = <<FALSE>>
    /\ projects[3].draft = <<>>
    /\ result = << <<projects[2], projects[3]>> >>

====
